---- MODULE Spec2Model ----
(***************************************************************************)
(* A model of calsync: the one-way calendar synchronisation engine         *)
(* (sync_engine.py), its mapping store (state_db.py), the calendar gateway *)
(* (calendar_api.py) and the run loop of main (calsync.py).                *)
(*                                                                         *)
(* Time is a natural number; the engine's clock, the window bounds and the *)
(* events' update timestamps are all read off the one variable clock.      *)
(***************************************************************************)
EXTENDS Integers, Sequences, FiniteSets, TLC

(***************************************************************************)
(* Bounds of the model.                                                    *)
(***************************************************************************)
MaxTime == 1
MaxCreated == 2

(***************************************************************************)
(* Configuration (config["sync"], config["target_calendar_id"]).           *)
(***************************************************************************)
days_back == 0
days_ahead == 1
event_prefix == "p"
target_calendar_id == "tgt"

(***************************************************************************)
(* The universe of the model: source calendars and their event ids, the    *)
(* summaries and start values events can carry.                            *)
(***************************************************************************)
SourceKeys == {<<"c1", "e1">>, <<"c1", "e2">>}
Calendars == {k[1] : k \in SourceKeys}
NoKey == <<"", "">>
SourceSummary == "a"
NoTime == 0 - 1
\* Target events that exist before the engine's first run have ids 1 and 2.
PreIds == {1, 2}

\* A start/end value of the calendar API: {"dateTime": ...} with an offset,
\* or {"date": ...}.
DateTimeVal(t) == [kind |-> "dateTime", v |-> t, off |-> 0]
\* {"date": d}: v is the instant of midnight UTC of the day d.
DateVal(t) == [kind |-> "date", v |-> t, off |-> 0]
\* A start/end that is not there ("absent": no such key), that is an empty
\* dictionary ("empty"), or that holds neither "date" nor "dateTime"
\* ("other": {"timeZone": ...}).
NoValue(kind) == [kind |-> kind, v |-> 0, off |-> 0]
\* An event without the key "summary".
NoSummary == "<none>"
Starts == {DateTimeVal(0), DateTimeVal(1)}
EndOf(s) == [s EXCEPT !.v = s.v + 1]

VARIABLES
    clock,                    \* datetime.now(timezone.utc)
    host_tz,                  \* UTC offset of the process's local time zone
    delete_on_source_delete,  \* SyncEngine.delete_on_source_delete
    source,                   \* the source calendars: key -> event
    target,                   \* the target calendar: a set of events
    nextTid,                  \* next id the target calendar hands out
    store,                    \* synced_events table: a set of rows
    pc,                       \* "idle", "loop", "deletes"
    mode,                     \* "sync" or "reconcile"
    dry_run,                  \* SyncEngine.dry_run
    cal,                      \* source_calendar_id of the run
    source_events,            \* the listing the run works on
    idx,                      \* position of the for loop in source_events
    synced_events,            \* ids tracked at the start of the run
    current_source_event_ids, \* ids seen in the listing so far
    deleted_events,           \* ids still to handle in the deletion loop
    target_lookup,            \* reconcile: key -> target event, as pairs
    stats,                    \* the run's counters
    calls,                    \* gateway write calls of the run, and failures
    first,                    \* two-run scenario: the first completed run
    second,                   \* two-run scenario: the second run is running
    args,                     \* main: the parsed command line
    files,                    \* main: which of the two files exist
    source_calendars,         \* main: config["source_calendars"], as ids
    main_pc,                  \* main: where the process is
    attempt_number,           \* initialize_calendar_api: attempts made
    cal_idx,                  \* main: position of the loop over calendars
    exit_status,              \* status the process exited with
    fault,                    \* what ended the process
    accessed,                 \* the gateway or the store has been used
    last_call,                \* the last direct call of a StateDB method
    event_in,                 \* key derivation: the event handed in
    key_out,                  \* key derivation: what the functions returned
    target_events,            \* reconcile_calendar: the target listing fetched
    edited,                   \* source events edited since the run began
    predicted                 \* what the last run, a dry run, reported

vars == <<clock, host_tz, delete_on_source_delete, source, target, nextTid,
          store, pc, mode, dry_run, cal, source_events, idx, synced_events,
          current_source_event_ids, deleted_events, target_lookup, stats,
          calls, first, second, args, files, source_calendars, main_pc,
          attempt_number, cal_idx, exit_status, fault, accessed, last_call,
          event_in, key_out, target_events, edited, predicted>>

envVars == <<clock, host_tz, delete_on_source_delete, source>>
runVars == <<pc, mode, dry_run, cal, source_events, idx, synced_events,
             current_source_event_ids, deleted_events, target_lookup, stats,
             calls>>
passVars == <<target_events, edited, predicted>>
ghostVars == <<event_in, key_out, passVars>>
scenarioVars == <<first, second, last_call, ghostVars>>
mainVars == <<args, files, source_calendars, main_pc, attempt_number, cal_idx,
              exit_status, fault, accessed>>

(***************************************************************************)
(* Event matching (sync_engine.py).                                        *)
(***************************************************************************)
\* datetime.fromisoformat(s.replace("Z", "+00:00")).astimezone(timezone.utc):
\* a value with an offset is shifted by it; a date-only value parses to a
\* naive midnight, which astimezone reads in the host's local zone.
ParseUTC(tv, tz) ==
    IF tv.kind = "dateTime" THEN tv.v - tv.off ELSE tv.v - tz

\* source_event.get("summary", "Untitled Event"); source_event["start"] and
\* source_event["end"] raise KeyError when the key is missing (ProjectedKey).
_build_event_data(source_event) ==
    [summary |-> event_prefix \o (IF source_event.summary = NoSummary
                                  THEN "Untitled Event"
                                  ELSE source_event.summary),
     start   |-> source_event.start,
     end     |-> source_event.end]

\* What the functions below give instead of a key when they raise.
AttributeError == <<"AttributeError">>
KeyError == <<"KeyError">>

\* not summary; not start / not end
NoText(summary) == summary \in {NoSummary, ""}
Falsy(x) == x.kind \in {"absent", "empty"}

\* Variant: a date-only value is read as midnight UTC on every host.
_build_event_key_utc(event, tz) ==
    IF NoText(event.summary) \/ Falsy(event.start) \/ Falsy(event.end)
    THEN <<>>
    ELSE IF event.start.kind = "other" \/ event.end.kind = "other"
    THEN AttributeError
    ELSE <<event.summary, ParseUTC(event.start, 0), ParseUTC(event.end, 0)>>

\* The key, <<>> for None; start.get("dateTime") or start.get("date") is
\* None for a dictionary with neither, and None.replace raises.
_build_event_key(event, tz) ==
    IF NoText(event.summary) \/ Falsy(event.start) \/ Falsy(event.end)
    THEN <<>>
    ELSE IF event.start.kind = "other" \/ event.end.kind = "other"
    THEN AttributeError
    ELSE <<event.summary, ParseUTC(event.start, tz), ParseUTC(event.end, tz)>>

_build_event_key_from_data(event_data, tz) ==
    IF \/ NoText(event_data.summary)
       \/ Falsy(event_data.start)
       \/ Falsy(event_data.end)
    THEN <<>>
    ELSE IF event_data.start.kind = "other" \/ event_data.end.kind = "other"
    THEN AttributeError
    ELSE <<event_data.summary, ParseUTC(event_data.start, tz),
           ParseUTC(event_data.end, tz)>>

\* reconcile_calendar, lines 219-220: the key of the projection of a source
\* event; _build_event_data raises KeyError without "start" or "end".
ProjectedKey(source_event, tz) ==
    IF source_event.start.kind = "absent" \/ source_event.end.kind = "absent"
    THEN KeyError
    ELSE _build_event_key_from_data(_build_event_data(source_event), tz)

\* Variant: the update timestamp is never read.
_get_updated_time_absent(event) == NoTime

_get_updated_time(event) == event.updated

(***************************************************************************)
(* Mapping store (state_db.py).  The table is a set of rows; the column id *)
(* (AUTOINCREMENT) is never read and is left out.                          *)
(***************************************************************************)
Row(sc, se, tc, te, su, ls) ==
    [source_calendar_id |-> sc, source_event_id |-> se,
     target_calendar_id |-> tc, target_event_id |-> te,
     source_updated |-> su, last_synced |-> ls]

RowsOf(st, sc, se) ==
    {r \in st : r.source_calendar_id = sc /\ r.source_event_id = se}

\* Variant: the SELECT finds no row, whatever the store holds.
get_synced_event_none(st, sc, se) == {}

\* get_synced_event: the set holding the fetched row, empty when None.
get_synced_event(st, sc, se) ==
    IF RowsOf(st, sc, se) = {} THEN {}
    ELSE {CHOOSE r \in RowsOf(st, sc, se) : TRUE}

\* Variant: a plain INSERT on a table without the UNIQUE constraint.
record_sync_insert(st, sc, se, tc, te, su, now) ==
    st \cup {Row(sc, se, tc, te, su, now)}

\* Variant: the time of the write is stored with its sign reversed.
record_sync_reversed(st, sc, se, tc, te, su, now) ==
    (st \ RowsOf(st, sc, se)) \cup {Row(sc, se, tc, te, su, 0 - now)}

\* Variant: the row is looked for by source_event_id alone.
record_sync_by_event(st, sc, se, tc, te, su, now) ==
    {r \in st : r.source_event_id # se} \cup {Row(sc, se, tc, te, su, now)}

\* INSERT OR REPLACE under UNIQUE(source_calendar_id, source_event_id).
record_sync(st, sc, se, tc, te, su, now) ==
    (st \ RowsOf(st, sc, se)) \cup {Row(sc, se, tc, te, su, now)}

\* Variant: DELETE ... WHERE source_event_id = ?, whatever the calendar.
delete_sync_record_by_event(st, sc, se) ==
    {r \in st : r.source_event_id # se}

\* delete_sync_record: the store after the call.
delete_sync_record(st, sc, se) == st \ RowsOf(st, sc, se)

\* delete_sync_record: the returned target_event_id, as a set that is
\* empty when the method returns None.
delete_sync_record_result(st, sc, se) ==
    {r.target_event_id : r \in get_synced_event(st, sc, se)}

get_all_synced_events(st, sc) ==
    {r.source_event_id : r \in {q \in st : q.source_calendar_id = sc}}

\* Variant: the lookup by target event finds nothing.
get_by_target_event_none(st, te) == {}

\* get_by_target_event: the rows a SELECT by target_event_id finds.
get_by_target_event(st, te) == {r \in st : r.target_event_id = te}

(***************************************************************************)
(* Calendar gateway (calendar_api.py).                                     *)
(***************************************************************************)
InWindow(tv, now, tz) ==
    /\ now - days_back <= ParseUTC(tv, tz)
    /\ ParseUTC(tv, tz) <= now + days_ahead

Snapshot(k) ==
    [id |-> k[2], updated |-> source[k].updated, summary |-> source[k].summary,
     start |-> source[k].start, end |-> source[k].end]

ListedKeys(c) ==
    {k \in SourceKeys : /\ k[1] = c
                        /\ source[k].exists
                        /\ InWindow(source[k].start, clock, host_tz)}

\* orderBy='startTime': every ordering of S by ascending start instant.
OrderedBy(S, startOf) ==
    {s \in [1..Cardinality(S) -> S] :
        /\ \A i, j \in 1..Cardinality(S) : i # j => s[i] # s[j]
        /\ \A i, j \in 1..Cardinality(S) : i < j => startOf[s[i]] <= startOf[s[j]]}

SourceStart(k) == ParseUTC(source[k].start, host_tz)
TargetStart(e) == ParseUTC(e.start, host_tz)

\* get_events on a source calendar: the possible results of a successful call.
SourceListings(c) ==
    {[i \in 1..Len(s) |-> Snapshot(s[i])] : s \in OrderedBy(ListedKeys(c),
                        [k \in ListedKeys(c) |-> SourceStart(k)])}

\* get_events on the target calendar.
TargetListings ==
    OrderedBy({e \in target : InWindow(e.start, clock, host_tz)},
              [e \in target |-> TargetStart(e)])

TargetEvent(id, data, origin) ==
    [id |-> id, summary |-> data.summary, start |-> data.start,
     end |-> data.end, origin |-> origin]

TargetById(id) == {e \in target : e.id = id}

\* events().update(...).execute(): the body replaces the event's fields.
UpdatedTarget(id, data) ==
    {IF e.id = id THEN [e EXCEPT !.summary = data.summary, !.start = data.start,
                                 !.end = data.end]
     ELSE e : e \in target}

(***************************************************************************)
(* Decisions of sync_calendar.                                             *)
(***************************************************************************)
SyncStats0 == [created |-> 0, updated |-> 0, skipped |-> 0, deleted |-> 0]
ReconcileStats0 ==
    [reconciled |-> 0, already_tracked |-> 0, not_found |-> 0,
     target_already_mapped |-> 0]
\* failed counts the calls among them that returned None or False.
NoCalls == [create |-> 0, update |-> 0, delete |-> 0, failed |-> 0]

\* Variant: a counter is incremented by two.
Bump_twice(rec, field) == [rec EXCEPT ![field] = @ + 2]

Bump(rec, field) == [rec EXCEPT ![field] = @ + 1]

\* Variant: an event as old as the row is pushed again.
NeedsUpdate_ge(source_updated, last_synced) ==
    source_updated # NoTime /\ source_updated >= last_synced

\* Variant: an event is pushed whenever its timestamp differs from the row's.
NeedsUpdate_ne(source_updated, last_synced) ==
    source_updated # NoTime /\ source_updated # last_synced

\* if source_updated and source_updated > last_synced
NeedsUpdate(source_updated, last_synced) ==
    source_updated # NoTime /\ source_updated > last_synced

\* Variant: the deletion loop runs whatever the configuration says.
DeletedEvents_always(flag, synced, current) == synced \ current

\* if self.delete_on_source_delete: deleted_events = synced - current
DeletedEvents(flag, synced, current) ==
    IF flag THEN synced \ current ELSE {}

\* Variant: the branch for an untracked event ignores dry_run.
CreateOutcomes_live(dry) == {"ok", "fail"}

\* What the branch for an untracked event can do: dry-run only counts,
\* otherwise create_event returns the event or None.
CreateOutcomes(dry) == IF dry THEN {"count"} ELSE {"ok", "fail"}
\* The branch for a tracked event that needs an update.
UpdateOutcomes(dry) == IF dry THEN {"count"} ELSE {"ok", "fail"}
\* One pass of the deletion loop.
DeleteOutcomes(dry) == IF dry THEN {"count"} ELSE {"ok", "fail"}
\* Variant: the recording branch only counts, dry run or not.
ReconcileOutcomes_count(dry) == {"count"}

\* The recording branch of reconcile_calendar.
ReconcileOutcomes(dry) == IF dry THEN {"count"} ELSE {"record"}

\* The model stops handing out target ids after MaxCreated of them.
CanCreate == nextTid <= Cardinality(PreIds) + MaxCreated

IdleRun ==
    /\ pc' = "idle"
    /\ mode' = "sync"
    /\ dry_run' = FALSE
    /\ cal' = ""
    /\ source_events' = <<>>
    /\ idx' = 0
    /\ synced_events' = {}
    /\ current_source_event_ids' = {}
    /\ deleted_events' = {}
    /\ target_lookup' = {}
    /\ stats' = SyncStats0
    /\ calls' = NoCalls

(***************************************************************************)
(* sync_calendar, lines 40-56: the window, the listing (an HttpError makes *)
(* get_events return []), the counters and the tracked ids.                *)
(***************************************************************************)
SyncStart(c, d) ==
    /\ pc = "idle"
    /\ \E listing \in SourceListings(c) \cup {<<>>} :
        /\ source_events' = listing
        /\ synced_events' = get_all_synced_events(store, c)
        /\ IF listing = <<>>
           THEN /\ pc' = "deletes"
                /\ deleted_events' =
                     DeletedEvents(delete_on_source_delete,
                                   get_all_synced_events(store, c), {})
           ELSE /\ pc' = "loop"
                /\ deleted_events' = {}
    /\ mode' = "sync"
    /\ dry_run' = d
    /\ cal' = c
    /\ idx' = 1
    /\ current_source_event_ids' = {}
    /\ target_lookup' = {}
    /\ stats' = SyncStats0
    /\ calls' = NoCalls
    /\ UNCHANGED <<envVars, target, nextTid, store>>

\* Variant: the loop is left after the pass, whatever is left to process.
NextSourceEvent_break(ids) ==
    /\ idx' = idx + 1
    /\ current_source_event_ids' = ids
    /\ pc' = "deletes"
    /\ deleted_events' =
         DeletedEvents(delete_on_source_delete, synced_events, ids)
    /\ UNCHANGED <<mode, dry_run, cal, source_events, synced_events,
                   target_lookup>>

\* The end of one pass of the for loop over source_events.
NextSourceEvent(ids) ==
    /\ idx' = idx + 1
    /\ current_source_event_ids' = ids
    /\ IF idx = Len(source_events)
       THEN /\ pc' = "deletes"
            /\ deleted_events' =
                 DeletedEvents(delete_on_source_delete, synced_events, ids)
       ELSE /\ pc' = "loop"
            /\ deleted_events' = deleted_events
    /\ UNCHANGED <<mode, dry_run, cal, source_events, synced_events,
                   target_lookup>>

(***************************************************************************)
(* sync_calendar, lines 59-121: one source event of the listing.           *)
(***************************************************************************)
SyncEvent ==
    /\ pc = "loop"
    /\ mode = "sync"
    /\ LET e == source_events[idx]
           found == get_synced_event(store, cal, e.id)
           source_updated == _get_updated_time(e)
           data == _build_event_data(e)
       IN  /\ NextSourceEvent(current_source_event_ids \cup {e.id})
           /\ IF found # {}
              THEN LET r == CHOOSE x \in found : TRUE
                   IN  IF NeedsUpdate(source_updated, r.last_synced)
                       THEN \E o \in UpdateOutcomes(dry_run) :
                              \/ /\ o = "count"
                                 /\ stats' = Bump(stats, "updated")
                                 /\ UNCHANGED <<calls, target, nextTid, store>>
                              \/ /\ o = "ok"
                                 /\ TargetById(r.target_event_id) # {}
                                 /\ target' = UpdatedTarget(r.target_event_id, data)
                                 /\ store' = record_sync(store, cal, e.id,
                                                target_calendar_id,
                                                r.target_event_id,
                                                source_updated, clock)
                                 /\ stats' = Bump(stats, "updated")
                                 /\ calls' = Bump(calls, "update")
                                 /\ UNCHANGED nextTid
                              \/ /\ o = "fail"
                                 /\ stats' = Bump(stats, "skipped")
                                 /\ calls' = Bump(Bump(calls, "update"), "failed")
                                 /\ UNCHANGED <<target, nextTid, store>>
                       ELSE /\ stats' = Bump(stats, "skipped")
                            /\ UNCHANGED <<calls, target, nextTid, store>>
              ELSE \E o \in CreateOutcomes(dry_run) :
                     \/ /\ o = "count"
                        /\ stats' = Bump(stats, "created")
                        /\ UNCHANGED <<calls, target, nextTid, store>>
                     \/ /\ o = "ok"
                        /\ CanCreate
                        /\ target' = target \cup
                               {TargetEvent(nextTid, data, <<cal, e.id>>)}
                        /\ nextTid' = nextTid + 1
                        /\ store' = record_sync(store, cal, e.id,
                                                target_calendar_id, nextTid,
                                                source_updated, clock)
                        /\ stats' = Bump(stats, "created")
                        /\ calls' = Bump(calls, "create")
                     \/ /\ o = "fail"
                        /\ stats' = Bump(stats, "skipped")
                        /\ calls' = Bump(Bump(calls, "create"), "failed")
                        /\ UNCHANGED <<target, nextTid, store>>
    /\ UNCHANGED envVars

(***************************************************************************)
(* sync_calendar, lines 126-169: one id of deleted_events.                 *)
(***************************************************************************)
SyncDeleted(d) ==
    /\ pc = "deletes"
    /\ mode = "sync"
    /\ d \in deleted_events
    /\ deleted_events' = deleted_events \ {d}
    /\ LET found == get_synced_event(store, cal, d)
       IN  \E o \in DeleteOutcomes(dry_run) :
             \/ /\ o = "count"
                /\ stats' = IF found # {} THEN Bump(stats, "deleted") ELSE stats
                /\ UNCHANGED <<calls, target, store>>
             \/ /\ o # "count"
                /\ store' = delete_sync_record(store, cal, d)
                /\ IF found = {}
                   THEN /\ o = "fail"
                        /\ UNCHANGED <<calls, target, stats>>
                   ELSE LET tid == (CHOOSE x \in found : TRUE).target_event_id
                        IN  \/ /\ o = "ok"
                               /\ TargetById(tid) # {}
                               /\ target' = target \ TargetById(tid)
                               /\ stats' = Bump(stats, "deleted")
                               /\ calls' = Bump(calls, "delete")
                            \/ /\ o = "fail"
                               /\ calls' = Bump(Bump(calls, "delete"), "failed")
                               /\ UNCHANGED <<target, stats>>
    /\ UNCHANGED <<envVars, nextTid, pc, mode, dry_run, cal, source_events,
                   idx, synced_events, current_source_event_ids,
                   target_lookup>>

\* sync_calendar, line 172: the summary is printed and the call returns.
SyncFinish ==
    /\ pc = "deletes"
    /\ mode = "sync"
    /\ deleted_events = {}
    /\ IdleRun
    /\ UNCHANGED <<envVars, target, nextTid, store>>

(***************************************************************************)
(* reconcile_calendar.                                                     *)
(***************************************************************************)
\* Lines 199-203: target_lookup[key] = target_event for every target event
\* with a key, in listing order, so a later event replaces an earlier one.
\* Variant: the first event of a key in the listing is kept.
BuildLookup_first(listing, tz) ==
    {[key |-> _build_event_key(listing[i], tz), id |-> listing[i].id] :
        i \in {j \in 1..Len(listing) :
                 /\ _build_event_key(listing[j], tz) # <<>>
                 /\ \A m \in 1..(j - 1) :
                      _build_event_key(listing[m], tz)
                        # _build_event_key(listing[j], tz)}}

\* Lines 197-203: target_lookup[key] = target_event for each listed target
\* event with a key, a later event of a key replacing an earlier one.
BuildLookup(listing, tz) ==
    {[key |-> _build_event_key(listing[i], tz), id |-> listing[i].id] :
        i \in {j \in 1..Len(listing) :
                 /\ _build_event_key(listing[j], tz) # <<>>
                 /\ \A m \in (j + 1)..Len(listing) :
                      _build_event_key(listing[m], tz)
                        # _build_event_key(listing[j], tz)}}

LookupKeys(lookup) == {p.key : p \in lookup}
LookupId(lookup, key) == (CHOOSE p \in lookup : p.key = key).id

\* Lines 185-206: both listings, the lookup table and the counters.
ReconcileStart(c, d) ==
    /\ pc = "idle"
    /\ \E listing \in SourceListings(c) \cup {<<>>} :
        /\ source_events' = listing
        /\ pc' = IF listing = <<>> THEN "summary" ELSE "loop"
    /\ \E tlisting \in TargetListings \cup {<<>>} :
        target_lookup' = BuildLookup(tlisting, host_tz)
    /\ mode' = "reconcile"
    /\ dry_run' = d
    /\ cal' = c
    /\ idx' = 1
    /\ synced_events' = {}
    /\ current_source_event_ids' = {}
    /\ deleted_events' = {}
    /\ stats' = ReconcileStats0
    /\ calls' = NoCalls
    /\ UNCHANGED <<envVars, target, nextTid, store>>

\* Lines 209-252: one source event of the listing.
ReconcileEvent ==
    /\ pc = "loop"
    /\ mode = "reconcile"
    /\ LET e == source_events[idx]
           found == get_synced_event(store, cal, e.id)
           expected_key == _build_event_key_from_data(_build_event_data(e), host_tz)
       IN  IF found # {}
           THEN /\ stats' = Bump(stats, "already_tracked")
                /\ UNCHANGED store
           ELSE IF expected_key # <<>> /\ expected_key \in LookupKeys(target_lookup)
           THEN LET target_event_id == LookupId(target_lookup, expected_key)
                IN  IF get_by_target_event(store, target_event_id) # {}
                    THEN /\ stats' = Bump(stats, "target_already_mapped")
                         /\ UNCHANGED store
                    ELSE \E o \in ReconcileOutcomes(dry_run) :
                           \/ /\ o = "count"
                              /\ stats' = Bump(stats, "reconciled")
                              /\ UNCHANGED store
                           \/ /\ o = "record"
                              /\ store' = record_sync(store, cal, e.id,
                                             target_calendar_id, target_event_id,
                                             _get_updated_time(e), clock)
                              /\ stats' = Bump(stats, "reconciled")
           ELSE /\ stats' = Bump(stats, "not_found")
                /\ UNCHANGED store
    /\ idx' = idx + 1
    /\ pc' = IF idx = Len(source_events) THEN "summary" ELSE "loop"
    /\ UNCHANGED <<envVars, target, nextTid, mode, dry_run, cal, source_events,
                   synced_events, current_source_event_ids, deleted_events,
                   target_lookup, calls>>

\* Line 255: the summary is printed and the call returns.
ReconcileFinish ==
    /\ pc = "summary"
    /\ mode = "reconcile"
    /\ IdleRun
    /\ UNCHANGED <<envVars, target, nextTid, store>>

(***************************************************************************)
(* main, calsync.py lines 199-201: KeyboardInterrupt ends the run where it *)
(* is; what was committed and what was written remotely stays.             *)
(***************************************************************************)
Interrupt ==
    /\ pc # "idle"
    /\ IdleRun
    /\ UNCHANGED <<envVars, target, nextTid, store>>

\* The interrupt arrives after create_event returned (line 104) and before
\* record_sync (line 109).
InterruptAfterCreate ==
    /\ pc = "loop"
    /\ mode = "sync"
    /\ ~dry_run
    /\ get_synced_event(store, cal, source_events[idx].id) = {}
    /\ CanCreate
    /\ target' = target \cup
          {TargetEvent(nextTid, _build_event_data(source_events[idx]),
                       <<cal, source_events[idx].id>>)}
    /\ nextTid' = nextTid + 1
    /\ IdleRun
    /\ UNCHANGED <<envVars, store>>

\* The interrupt arrives after delete_sync_record returned (line 159) and
\* before delete_event (line 162).
InterruptAfterDeleteRecord ==
    /\ pc = "deletes"
    /\ mode = "sync"
    /\ ~dry_run
    /\ \E d \in deleted_events : store' = delete_sync_record(store, cal, d)
    /\ IdleRun
    /\ UNCHANGED <<envVars, target, nextTid>>

(***************************************************************************)
(* The environment, between two runs: time passes and the owners of the    *)
(* source calendars edit events (a change outside summary, start and end), *)
(* remove them and restore them.                                           *)
(***************************************************************************)
Tick ==
    /\ pc = "idle"
    /\ clock < MaxTime
    /\ clock' = clock + 1
    /\ UNCHANGED <<host_tz, delete_on_source_delete, source, target, nextTid,
                   store, runVars>>

SourceEdit(k) ==
    /\ pc = "idle"
    /\ source[k].exists
    /\ source' = [source EXCEPT ![k].updated = clock]
    /\ UNCHANGED <<clock, host_tz, delete_on_source_delete, target, nextTid,
                   store, runVars>>

SourceRemove(k) ==
    /\ pc = "idle"
    /\ source[k].exists
    /\ source' = [source EXCEPT ![k].exists = FALSE]
    /\ UNCHANGED <<clock, host_tz, delete_on_source_delete, target, nextTid,
                   store, runVars>>

SourceRestore(k) ==
    /\ pc = "idle"
    /\ ~source[k].exists
    /\ source' = [source EXCEPT ![k].exists = TRUE, ![k].updated = clock]
    /\ UNCHANGED <<clock, host_tz, delete_on_source_delete, target, nextTid,
                   store, runVars>>

(***************************************************************************)
(* The initial state: a new, empty store (StateDB.__init__), a target      *)
(* calendar that may already hold events made by hand, and the source      *)
(* calendars' events.                                                      *)
(***************************************************************************)
PreTarget(i) ==
    [id |-> i, summary |-> event_prefix \o SourceSummary,
     start |-> DateTimeVal(0), end |-> EndOf(DateTimeVal(0)), origin |-> NoKey]

SourceEvents(stamps) ==
    {e \in [exists : {TRUE}, updated : stamps, summary : {SourceSummary},
            start : Starts, end : {EndOf(s) : s \in Starts}] :
        e.end = EndOf(e.start)}

InitEnv ==
    /\ clock = 0
    /\ host_tz = 0
    /\ delete_on_source_delete \in BOOLEAN
    /\ source \in [SourceKeys -> SourceEvents({0})]
    /\ target \in SUBSET {PreTarget(1)}
    /\ nextTid = Cardinality(PreIds) + 1

InitRun ==
    /\ pc = "idle"
    /\ mode = "sync"
    /\ dry_run = FALSE
    /\ cal = ""
    /\ source_events = <<>>
    /\ idx = 0
    /\ synced_events = {}
    /\ current_source_event_ids = {}
    /\ deleted_events = {}
    /\ target_lookup = {}
    /\ stats = SyncStats0
    /\ calls = NoCalls

NoFirst ==
    [done |-> FALSE, ok |-> TRUE, cal |-> "", listing |-> <<>>,
     stats |-> SyncStats0]

\* The value exit_status has while the process runs.
NoStatus == 0 - 1

\* No dry run has been made.
NoPrediction ==
    [done |-> FALSE, following |-> FALSE, mode |-> "sync", cal |-> "",
     listing |-> <<>>, lookup |-> {}, store |-> {}, stats |-> SyncStats0]

\* No run is being followed.
NoPass ==
    /\ target_events = <<>>
    /\ edited = {}
    /\ predicted = NoPrediction

\* No event has been handed to the key functions by themselves.
NoGhosts ==
    /\ event_in = [summary |-> "", start |-> DateTimeVal(0),
                   end |-> EndOf(DateTimeVal(0))]
    /\ key_out = [applied |-> FALSE, target |-> <<>>, data |-> <<>>,
                  projected |-> <<>>, created |-> <<>>]
    /\ NoPass

\* No StateDB method has been called directly.
NoCall ==
    [op |-> "none", sc |-> "", se |-> "", tc |-> "", te |-> 0, su |-> NoTime,
     tracked |-> FALSE, result |-> {}]

\* The engine taken by itself: its runs are started by no main.
NoMain ==
    /\ args = [list_calendars |-> FALSE, reconcile |-> FALSE, dry_run |-> FALSE]
    /\ files = [config |-> TRUE, credentials |-> TRUE]
    /\ source_calendars = <<>>
    /\ main_pc = "off"
    /\ attempt_number = 0
    /\ cal_idx = 0
    /\ exit_status = NoStatus
    /\ fault = "none"
    /\ accessed = FALSE

Init ==
    /\ InitEnv
    /\ InitRun
    /\ store = {}
    /\ first = NoFirst
    /\ second = FALSE
    /\ last_call = NoCall
    /\ NoGhosts
    /\ NoMain

Next ==
    \/ \E c \in Calendars, d \in BOOLEAN : SyncStart(c, d) /\ UNCHANGED <<scenarioVars, mainVars>>
    \/ SyncEvent /\ UNCHANGED <<scenarioVars, mainVars>>
    \/ \E d \in deleted_events : SyncDeleted(d) /\ UNCHANGED <<scenarioVars, mainVars>>
    \/ SyncFinish /\ UNCHANGED <<scenarioVars, mainVars>>
    \/ \E c \in Calendars, d \in BOOLEAN : ReconcileStart(c, d) /\ UNCHANGED <<scenarioVars, mainVars>>
    \/ ReconcileEvent /\ UNCHANGED <<scenarioVars, mainVars>>
    \/ ReconcileFinish /\ UNCHANGED <<scenarioVars, mainVars>>
    \/ Interrupt /\ UNCHANGED <<scenarioVars, mainVars>>
    \/ InterruptAfterCreate /\ UNCHANGED <<scenarioVars, mainVars>>
    \/ InterruptAfterDeleteRecord /\ UNCHANGED <<scenarioVars, mainVars>>
    \/ Tick /\ UNCHANGED <<scenarioVars, mainVars>>
    \/ \E k \in SourceKeys : SourceEdit(k) /\ UNCHANGED <<scenarioVars, mainVars>>
    \/ \E k \in SourceKeys : SourceRemove(k) /\ UNCHANGED <<scenarioVars, mainVars>>
    \/ \E k \in SourceKeys : SourceRestore(k) /\ UNCHANGED <<scenarioVars, mainVars>>

Spec == Init /\ [][Next]_vars

(***************************************************************************)
(* The engine with delete propagation when no run is interrupted: every    *)
(* run of sync_calendar and of reconcile_calendar reaches its summary.     *)
(***************************************************************************)
InitWhole ==
    /\ Init
    /\ delete_on_source_delete
    /\ target = {}

NextWhole ==
    \/ \E c \in Calendars, d \in BOOLEAN : SyncStart(c, d) /\ UNCHANGED <<scenarioVars, mainVars>>
    \/ SyncEvent /\ UNCHANGED <<scenarioVars, mainVars>>
    \/ \E d \in deleted_events : SyncDeleted(d) /\ UNCHANGED <<scenarioVars, mainVars>>
    \/ SyncFinish /\ UNCHANGED <<scenarioVars, mainVars>>
    \/ \E c \in Calendars, d \in BOOLEAN : ReconcileStart(c, d) /\ UNCHANGED <<scenarioVars, mainVars>>
    \/ ReconcileEvent /\ UNCHANGED <<scenarioVars, mainVars>>
    \/ ReconcileFinish /\ UNCHANGED <<scenarioVars, mainVars>>
    \/ Tick /\ UNCHANGED <<scenarioVars, mainVars>>
    \/ \E k \in SourceKeys : SourceEdit(k) /\ UNCHANGED <<scenarioVars, mainVars>>
    \/ \E k \in SourceKeys : SourceRemove(k) /\ UNCHANGED <<scenarioVars, mainVars>>
    \/ \E k \in SourceKeys : SourceRestore(k) /\ UNCHANGED <<scenarioVars, mainVars>>

SpecWhole == InitWhole /\ [][NextWhole]_vars

(***************************************************************************)
(* Runs of sync_calendar from an arbitrary store: the store holds any set  *)
(* of rows (one per source event at most) written at or before the present *)
(* time, the target calendar any of the events the rows name.  The source  *)
(* calendar does not change; first and second follow two non-dry runs made *)
(* in succession on the same calendar with the same listing.               *)
(***************************************************************************)
KeyNo(k) == IF k[2] = "e1" THEN 1 ELSE 2

StoresUpTo(now) ==
    {st \in SUBSET {Row(k[1], k[2], target_calendar_id, KeyNo(k), NoTime, ls) :
                      k \in SourceKeys, ls \in 0..now} :
        \A k \in SourceKeys : Cardinality(RowsOf(st, k[1], k[2])) <= 1}

InitRuns ==
    /\ clock \in 0..MaxTime
    /\ host_tz = 0
    /\ delete_on_source_delete \in BOOLEAN
    /\ source \in [SourceKeys -> SourceEvents({NoTime} \cup 0..clock)]
    /\ store \in StoresUpTo(clock)
    /\ target \in SUBSET {TargetEvent(KeyNo(k), _build_event_data(source[k]), k) :
                            k \in SourceKeys}
    /\ nextTid = Cardinality(PreIds) + 1
    /\ InitRun
    /\ first = NoFirst
    /\ second = FALSE
    /\ last_call = NoCall
    /\ NoGhosts
    /\ NoMain

RunsStart(c, d) ==
    /\ SyncStart(c, d)
    /\ second' = (first.done /\ ~d /\ first.cal = c
                    /\ source_events' = first.listing)
    /\ first' = first
    /\ UNCHANGED <<mainVars, last_call, ghostVars>>

RunsEvent == SyncEvent /\ UNCHANGED <<scenarioVars, mainVars>>

RunsDeleted(d) == SyncDeleted(d) /\ UNCHANGED <<scenarioVars, mainVars>>

\* A run counts as passed when each create and update call it issued
\* succeeded.
RunsFinish ==
    /\ SyncFinish
    /\ second' = FALSE
    /\ first' = IF dry_run THEN NoFirst
                ELSE [done |-> TRUE,
                      ok |-> (calls.create = stats.created
                                /\ calls.update = stats.updated),
                      cal |-> cal, listing |-> source_events, stats |-> stats]
    /\ UNCHANGED <<mainVars, last_call, ghostVars>>

RunsTick == Tick /\ UNCHANGED <<scenarioVars, mainVars>>

NextRuns ==
    \/ \E c \in Calendars, d \in BOOLEAN : RunsStart(c, d)
    \/ RunsEvent
    \/ \E d \in deleted_events : RunsDeleted(d)
    \/ RunsFinish
    \/ RunsTick

SpecRuns == InitRuns /\ [][NextRuns]_vars

(***************************************************************************)
(* Runs of sync_calendar on a store that an earlier configuration filled:  *)
(* a row may name another target calendar than the configured one, while   *)
(* the configured calendar holds an event of the row's target_event_id (an *)
(* event moved between calendars keeps its id).                            *)
(***************************************************************************)
StoredTargetCalendars == {target_calendar_id, "tgt_before"}

StoresBefore(now) ==
    {st \in SUBSET {Row(k[1], k[2], tc, KeyNo(k), NoTime, ls) :
                      k \in SourceKeys, tc \in StoredTargetCalendars,
                      ls \in 0..now} :
        \A k \in SourceKeys : Cardinality(RowsOf(st, k[1], k[2])) <= 1}

InitBefore ==
    /\ clock \in 0..MaxTime
    /\ host_tz = 0
    /\ delete_on_source_delete \in BOOLEAN
    /\ source \in [SourceKeys -> SourceEvents({NoTime} \cup 0..clock)]
    /\ store \in StoresBefore(clock)
    /\ target = {TargetEvent(KeyNo(k), _build_event_data(source[k]), k) :
                   k \in SourceKeys}
    /\ nextTid = Cardinality(PreIds) + 1
    /\ InitRun
    /\ first = NoFirst
    /\ second = FALSE
    /\ last_call = NoCall
    /\ NoGhosts
    /\ NoMain

SpecBefore == InitBefore /\ [][NextRuns]_vars

(***************************************************************************)
(* Passes of reconcile_calendar over a target calendar that may hold two   *)
(* events of the same key; target_events keeps the target listing the pass *)
(* fetched, from which it built target_lookup.                             *)
(***************************************************************************)
InitLookup ==
    /\ clock = 0
    /\ host_tz = 0
    /\ delete_on_source_delete = FALSE
    /\ source \in [SourceKeys -> SourceEvents({0})]
    /\ target \in SUBSET {PreTarget(i) : i \in PreIds}
    /\ nextTid = Cardinality(PreIds) + 1
    /\ store = {}
    /\ InitRun
    /\ first = NoFirst
    /\ second = FALSE
    /\ last_call = NoCall
    /\ NoGhosts
    /\ NoMain

LookupStart(c, d) ==
    /\ ReconcileStart(c, d)
    /\ \E tlisting \in TargetListings \cup {<<>>} :
         /\ target_events' = tlisting
         /\ target_lookup' = BuildLookup(tlisting, host_tz)
    /\ UNCHANGED <<first, second, last_call, event_in, key_out, edited,
                   predicted, mainVars>>

LookupEvent == ReconcileEvent /\ UNCHANGED <<scenarioVars, mainVars>>

LookupFinish == ReconcileFinish /\ UNCHANGED <<scenarioVars, mainVars>>

LookupTick == Tick /\ UNCHANGED <<scenarioVars, mainVars>>

NextLookup ==
    \/ \E c \in Calendars, d \in BOOLEAN : LookupStart(c, d)
    \/ LookupEvent
    \/ LookupFinish
    \/ LookupTick

SpecLookup == InitLookup /\ [][NextLookup]_vars

(***************************************************************************)
(* Runs of sync_calendar, without delete propagation, while the owner of   *)
(* the source calendar edits the content of tracked events, at a time      *)
(* later than every write recorded so far: between two runs, and during a  *)
(* run, after the listing was fetched and before the event's pass of the   *)
(* loop.  edited holds the events edited since the current run began.      *)
(***************************************************************************)
EditedSummary(summary) == IF summary = SourceSummary THEN "b" ELSE SourceSummary

InitEdit ==
    /\ clock = 0
    /\ host_tz = 0
    /\ delete_on_source_delete = FALSE
    /\ source \in [SourceKeys -> SourceEvents({0})]
    /\ target = {}
    /\ nextTid = Cardinality(PreIds) + 1
    /\ store = {}
    /\ InitRun
    /\ first = NoFirst
    /\ second = FALSE
    /\ last_call = NoCall
    /\ NoGhosts
    /\ NoMain

EditStart(c, d) ==
    /\ SyncStart(c, d)
    /\ edited' = {}
    /\ UNCHANGED <<first, second, last_call, event_in, key_out, target_events,
                   predicted, mainVars>>

EditEvent == SyncEvent /\ UNCHANGED <<scenarioVars, mainVars>>

EditFinish == SyncFinish /\ UNCHANGED <<scenarioVars, mainVars>>

EditTick == Tick /\ UNCHANGED <<scenarioVars, mainVars>>

\* The owner saves the event with another summary; "updated" becomes the
\* time of the edit.
EditSource(k) ==
    /\ source[k].exists
    /\ RowsOf(store, k[1], k[2]) # {}
    /\ \A r \in store : r.last_synced < clock
    /\ \/ pc = "idle"
       \/ /\ pc = "loop"
          /\ mode = "sync"
          /\ k[1] = cal
          /\ \E i \in idx..Len(source_events) : source_events[i].id = k[2]
    /\ source' = [source EXCEPT ![k].updated = clock,
                                ![k].summary = EditedSummary(@)]
    /\ edited' = edited \cup {k}
    /\ UNCHANGED <<clock, host_tz, delete_on_source_delete, target, nextTid,
                   store, runVars, first, second, last_call, event_in, key_out,
                   target_events, predicted, mainVars>>

NextEdit ==
    \/ \E c \in Calendars, d \in BOOLEAN : EditStart(c, d)
    \/ EditEvent
    \/ EditFinish
    \/ EditTick
    \/ \E k \in SourceKeys : EditSource(k)

SpecEdit == InitEdit /\ [][NextEdit]_vars

(***************************************************************************)
(* A dry run followed by a real one.  predicted keeps what a completed dry *)
(* run reported, with the store, the source listing and the lookup it      *)
(* worked on; it is being followed when the next run is a non-dry run of   *)
(* the same operation on the same calendar that starts from the same       *)
(* store and fetches the same listings.  Delete propagation is on and the  *)
(* source events start and end at the same time.                           *)
(***************************************************************************)
InitDry ==
    /\ Init
    /\ delete_on_source_delete
    /\ \A k \in SourceKeys : source[k].start = DateTimeVal(0)
    /\ \A k \in SourceKeys : source[k].end = EndOf(DateTimeVal(0))

Follows(m, c, d) ==
    /\ predicted.done
    /\ ~d
    /\ predicted.mode = m
    /\ predicted.cal = c
    /\ predicted.store = store
    /\ predicted.listing = source_events'
    /\ predicted.lookup = target_lookup'

DryStart(m, c, d) ==
    /\ \/ m = "sync" /\ SyncStart(c, d)
       \/ m = "reconcile" /\ ReconcileStart(c, d)
    /\ predicted' = IF Follows(m, c, d)
                    THEN [predicted EXCEPT !.following = TRUE]
                    ELSE NoPrediction
    /\ UNCHANGED <<first, second, last_call, event_in, key_out, target_events,
                   edited, mainVars>>

DryEvent ==
    /\ SyncEvent \/ ReconcileEvent
    /\ UNCHANGED <<scenarioVars, mainVars>>

DryDeleted(id) == SyncDeleted(id) /\ UNCHANGED <<scenarioVars, mainVars>>

DryFinish ==
    /\ predicted' = IF dry_run
                    THEN [done |-> TRUE, following |-> FALSE, mode |-> mode,
                          cal |-> cal, listing |-> source_events,
                          lookup |-> target_lookup, store |-> store,
                          stats |-> stats]
                    ELSE NoPrediction
    /\ SyncFinish \/ ReconcileFinish
    /\ UNCHANGED <<first, second, last_call, event_in, key_out, target_events,
                   edited, mainVars>>

DryEnv ==
    /\ \/ Tick
       \/ \E k \in SourceKeys : SourceEdit(k) \/ SourceRemove(k)
    /\ UNCHANGED <<scenarioVars, mainVars>>

NextDry ==
    \/ \E m \in {"sync", "reconcile"}, c \in Calendars, d \in BOOLEAN :
         DryStart(m, c, d)
    \/ DryEvent
    \/ \E id \in deleted_events : DryDeleted(id)
    \/ DryFinish
    \/ DryEnv

SpecDry == InitDry /\ [][NextDry]_vars

(***************************************************************************)
(* main (calsync.py): the set-up checks, initialize_calendar_api with its  *)
(* retries, the loop over the configured source calendars and the exits.   *)
(* fault names what ended the process: "none" (the work was done),         *)
(* "config", "credentials", "network" (the retries ran out), "error" (any  *)
(* other exception), "store" (a store operation raised), "interrupt".      *)
(***************************************************************************)
\* stop=stop_after_attempt(5)
MaxAttempts == 5

ConfiguredCalendars == {<<>>, <<"c1">>, <<"c1", "c2">>}

\* Variant: one attempt more before giving up.
ShouldRetry_more(outcome, n) == outcome = "network" /\ n <= MaxAttempts

\* retry_if_exception_type((gaierror, ..., OSError)) with stop_after_attempt:
\* whether attempt n, which ended in outcome, is followed by another.
ShouldRetry(outcome, n) == outcome = "network" /\ n < MaxAttempts

\* Variant: an interrupted run exits like a completed one.
ExitStatus_interrupt(f) == IF f \in {"none", "interrupt"} THEN 0 ELSE 1

\* sys.exit(1) in load_config, in the credentials checks and in the except
\* clauses; sys.exit(0) or the end of main otherwise.
ExitStatus(f) == IF f = "none" THEN 0 ELSE 1

MainExit(f) ==
    /\ main_pc' = "exited"
    /\ fault' = f
    /\ exit_status' = ExitStatus(f)

\* Lines 103-122 and 154-167: the configuration file is required unless
\* --list-calendars is given; the credentials file is required always.
MainSetup ==
    /\ main_pc = "start"
    /\ IF ~args.list_calendars /\ ~files.config
       THEN MainExit("config")
       ELSE IF ~files.credentials
       THEN MainExit("credentials")
       ELSE /\ main_pc' = "init"
            /\ UNCHANGED <<fault, exit_status>>
    /\ UNCHANGED <<args, files, source_calendars, attempt_number, cal_idx,
                   accessed>>
    /\ UNCHANGED <<envVars, target, nextTid, store, runVars, scenarioVars>>

\* Lines 33-51, called at 125 and 170: one attempt to construct CalendarAPI.
InitializeAttempt ==
    /\ main_pc = "init"
    /\ attempt_number' = attempt_number + 1
    /\ accessed' = TRUE
    /\ \E outcome \in {"ok", "network", "error"} :
         IF outcome = "ok"
         THEN /\ main_pc' = IF args.list_calendars THEN "list" ELSE "open"
              /\ UNCHANGED <<fault, exit_status>>
         ELSE IF ShouldRetry(outcome, attempt_number + 1)
         THEN UNCHANGED <<main_pc, fault, exit_status>>
         ELSE MainExit(outcome)
    /\ UNCHANGED <<args, files, source_calendars, cal_idx>>
    /\ UNCHANGED <<envVars, target, nextTid, store, runVars, scenarioVars>>

\* Lines 126-151: list_calendars returns the calendars, or [] on HttpError;
\* any other exception is caught at line 147.
MainListCalendars ==
    /\ main_pc = "list"
    /\ \E outcome \in {"some", "empty", "error"} :
         MainExit(IF outcome = "error" THEN "error" ELSE "none")
    /\ UNCHANGED <<args, files, source_calendars, attempt_number, cal_idx,
                   accessed>>
    /\ UNCHANGED <<envVars, target, nextTid, store, runVars, scenarioVars>>

\* Lines 171-186: the store is opened (sqlite3.connect and _init_schema may
\* raise), the engine is built, and an empty list of calendars ends main.
MainOpen ==
    /\ main_pc = "open"
    /\ \E outcome \in {"ok", "store"} :
         IF outcome = "store"
         THEN MainExit("store") /\ UNCHANGED cal_idx
         ELSE IF source_calendars = <<>>
         THEN MainExit("none") /\ UNCHANGED cal_idx
         ELSE /\ main_pc' = "calendars"
              /\ cal_idx' = 1
              /\ UNCHANGED <<fault, exit_status>>
    /\ UNCHANGED <<args, files, source_calendars, attempt_number, accessed>>
    /\ UNCHANGED <<envVars, target, nextTid, store, runVars, scenarioVars>>

\* Lines 188-194: the next configured calendar is handed to the engine.
MainRunStart ==
    /\ main_pc = "calendars"
    /\ cal_idx <= Len(source_calendars)
    /\ IF args.reconcile
       THEN ReconcileStart(source_calendars[cal_idx], args.dry_run)
       ELSE SyncStart(source_calendars[cal_idx], args.dry_run)
    /\ main_pc' = "running"
    /\ UNCHANGED <<args, files, source_calendars, attempt_number, cal_idx,
                   exit_status, fault, accessed, scenarioVars>>

MainRunStep ==
    /\ main_pc = "running"
    /\ \/ SyncEvent
       \/ \E d \in deleted_events : SyncDeleted(d)
       \/ ReconcileEvent
    /\ UNCHANGED <<mainVars, scenarioVars>>

MainRunFinish ==
    /\ main_pc = "running"
    /\ SyncFinish \/ ReconcileFinish
    /\ main_pc' = "calendars"
    /\ cal_idx' = cal_idx + 1
    /\ UNCHANGED <<args, files, source_calendars, attempt_number, exit_status,
                   fault, accessed, scenarioVars>>

\* Line 197 and the end of main.
MainDone ==
    /\ main_pc = "calendars"
    /\ cal_idx > Len(source_calendars)
    /\ MainExit("none")
    /\ UNCHANGED <<args, files, source_calendars, attempt_number, cal_idx,
                   accessed>>
    /\ UNCHANGED <<envVars, target, nextTid, store, runVars, scenarioVars>>

\* Lines 199-201: KeyboardInterrupt inside the try block.
MainInterrupt ==
    /\ main_pc \in {"init", "open", "calendars", "running"}
    /\ \/ /\ main_pc = "running"
          /\ Interrupt \/ InterruptAfterCreate \/ InterruptAfterDeleteRecord
       \/ /\ main_pc # "running"
          /\ UNCHANGED <<envVars, target, nextTid, store, runVars>>
    /\ MainExit("interrupt")
    /\ UNCHANGED <<args, files, source_calendars, attempt_number, cal_idx,
                   accessed, scenarioVars>>

\* Variant: the exception of a store operation is swallowed like a failed
\* gateway call: the event is passed over and the run goes on.
MainStoreFailure_skip ==
    /\ main_pc = "running"
    /\ pc = "loop"
    /\ fault' = "store"
    /\ idx' = idx + 1
    /\ pc' = IF idx < Len(source_events) THEN "loop"
             ELSE IF mode = "sync" THEN "deletes" ELSE "summary"
    /\ UNCHANGED <<envVars, target, nextTid, store, mode, dry_run, cal,
                   source_events, synced_events, current_source_event_ids,
                   deleted_events, target_lookup, stats, calls>>
    /\ UNCHANGED <<args, files, source_calendars, main_pc, attempt_number,
                   cal_idx, exit_status, accessed, scenarioVars>>

\* A store operation of the pass at hand raises (sqlite3.Error): nothing in
\* sync_engine.py or state_db.py catches it, so it ends sync_calendar or
\* reconcile_calendar and reaches line 202.  The operation is the first of
\* the pass (get_synced_event, delete_sync_record), or the record_sync that
\* follows a create_event that has returned.
MainStoreFailure ==
    /\ main_pc = "running"
    /\ \/ /\ pc = "loop" \/ (pc = "deletes" /\ deleted_events # {})
          /\ IdleRun
          /\ UNCHANGED <<envVars, target, nextTid, store>>
       \/ InterruptAfterCreate
    /\ MainExit("store")
    /\ UNCHANGED <<args, files, source_calendars, attempt_number, cal_idx,
                   accessed, scenarioVars>>

\* The process starts with the store and the target calendar some earlier
\* process left.
InitMain ==
    /\ clock = 0
    /\ host_tz = 0
    /\ delete_on_source_delete \in BOOLEAN
    /\ source \in [SourceKeys -> SourceEvents({0})]
    /\ store \in StoresUpTo(clock)
    /\ target \in SUBSET {TargetEvent(KeyNo(k), _build_event_data(source[k]), k) :
                            k \in SourceKeys}
    /\ nextTid = Cardinality(PreIds) + 1
    /\ InitRun
    /\ first = NoFirst
    /\ second = FALSE
    /\ last_call = NoCall
    /\ NoGhosts
    /\ args \in [list_calendars : BOOLEAN, reconcile : BOOLEAN, dry_run : BOOLEAN]
    /\ files \in [config : BOOLEAN, credentials : BOOLEAN]
    /\ source_calendars \in ConfiguredCalendars
    /\ main_pc = "start"
    /\ attempt_number = 0
    /\ cal_idx = 0
    /\ exit_status = NoStatus
    /\ fault = "none"
    /\ accessed = FALSE

NextMain ==
    \/ MainSetup
    \/ InitializeAttempt
    \/ MainListCalendars
    \/ MainOpen
    \/ MainRunStart
    \/ MainRunStep
    \/ MainRunFinish
    \/ MainDone
    \/ MainInterrupt
    \/ MainStoreFailure

SpecMain == InitMain /\ [][NextMain]_vars

(***************************************************************************)
(* StateDB taken by itself: record_sync and delete_sync_record called with *)
(* any arguments on any store of at most one row per key.                  *)
(***************************************************************************)
StoreKeys == SourceKeys \cup {<<"c2", "e1">>}

StoreRows(k, now) ==
    {Row(k[1], k[2], target_calendar_id, te, su, ls) :
       te \in PreIds, su \in {NoTime, 0}, ls \in 0..now}

\* The stores with one row for each key of some set of keys.
Stores(now) ==
    UNION {{{f[k] : k \in S} : f \in [S -> UNION {StoreRows(k, now) : k \in S}]} :
             S \in SUBSET StoreKeys}

InitStore ==
    /\ clock \in 0..MaxTime
    /\ host_tz = 0
    /\ delete_on_source_delete = FALSE
    /\ source = [k \in SourceKeys |->
                   [exists |-> TRUE, updated |-> 0, summary |-> SourceSummary,
                    start |-> DateTimeVal(0), end |-> EndOf(DateTimeVal(0))]]
    /\ target = {}
    /\ nextTid = Cardinality(PreIds) + 1
    /\ store \in {st \in Stores(clock) :
                    \A r, q \in st :
                      ( /\ r.source_calendar_id = q.source_calendar_id
                        /\ r.source_event_id = q.source_event_id ) => r = q}
    /\ InitRun
    /\ first = NoFirst
    /\ second = FALSE
    /\ last_call = NoCall
    /\ NoGhosts
    /\ NoMain

StoreRecord(k, te, su) ==
    /\ store' = record_sync(store, k[1], k[2], target_calendar_id, te, su, clock)
    /\ last_call' = [op |-> "record_sync", sc |-> k[1], se |-> k[2],
                     tc |-> target_calendar_id, te |-> te, su |-> su,
                     tracked |-> RowsOf(store, k[1], k[2]) # {},
                     result |-> {}]
    /\ UNCHANGED <<envVars, target, nextTid, runVars, first, second, mainVars,
                   ghostVars>>

StoreDelete(k) ==
    /\ store' = delete_sync_record(store, k[1], k[2])
    /\ last_call' = [op |-> "delete_sync_record", sc |-> k[1], se |-> k[2],
                     tc |-> "", te |-> 0, su |-> NoTime,
                     tracked |-> RowsOf(store, k[1], k[2]) # {},
                     result |-> delete_sync_record_result(store, k[1], k[2])]
    /\ UNCHANGED <<envVars, target, nextTid, runVars, first, second, mainVars,
                   ghostVars>>

StoreTick == Tick /\ UNCHANGED <<scenarioVars, mainVars>>

NextStore ==
    \/ \E k \in StoreKeys, te \in PreIds, su \in {NoTime, 0} : StoreRecord(k, te, su)
    \/ \E k \in StoreKeys : StoreDelete(k)
    \/ StoreTick

SpecStore == InitStore /\ [][NextStore]_vars

(***************************************************************************)
(* The key functions on their own: _build_event_key on a calendar event,  *)
(* _build_event_key_from_data on a draft, the key of a source event's     *)
(* projection (reconcile_calendar, lines 219-220) and the key of the      *)
(* target event made from that projection, on hosts of different zones.   *)
(***************************************************************************)
HostZones == {0 - 1, 0, 1}

TimeValues ==
    {NoValue("absent"), NoValue("empty"), NoValue("other"),
     DateTimeVal(0), [kind |-> "dateTime", v |-> 1, off |-> 1],
     DateVal(0), DateVal(1)}

EventShapes ==
    [summary : {NoSummary, "", SourceSummary},
     start : TimeValues, end : TimeValues]

\* events().insert(body=event_data): the created event carries the draft.
CreatedKey(source_event, tz) ==
    IF source_event.start.kind = "absent" \/ source_event.end.kind = "absent"
    THEN KeyError
    ELSE _build_event_key(TargetEvent(1, _build_event_data(source_event), NoKey),
                          tz)

InitKey ==
    /\ clock = 0
    /\ host_tz \in HostZones
    /\ delete_on_source_delete = FALSE
    /\ source = [k \in SourceKeys |->
                   [exists |-> TRUE, updated |-> 0, summary |-> SourceSummary,
                    start |-> DateTimeVal(0), end |-> EndOf(DateTimeVal(0))]]
    /\ target = {}
    /\ nextTid = Cardinality(PreIds) + 1
    /\ store = {}
    /\ InitRun
    /\ first = NoFirst
    /\ second = FALSE
    /\ last_call = NoCall
    /\ event_in \in EventShapes
    /\ key_out = [applied |-> FALSE, target |-> <<>>, data |-> <<>>,
                  projected |-> <<>>, created |-> <<>>]
    /\ NoPass
    /\ NoMain

KeyApply ==
    /\ ~key_out.applied
    /\ key_out' = [applied |-> TRUE,
                   target |-> _build_event_key(event_in, host_tz),
                   data |-> _build_event_key_from_data(event_in, host_tz),
                   projected |-> ProjectedKey(event_in, host_tz),
                   created |-> CreatedKey(event_in, host_tz)]
    /\ UNCHANGED <<envVars, target, nextTid, store, runVars, first, second,
                   last_call, event_in, passVars, mainVars>>

\* The next event, on a host of any zone.
KeyInput(e, tz) ==
    /\ key_out.applied
    /\ event_in' = e
    /\ host_tz' = tz
    /\ key_out' = [key_out EXCEPT !.applied = FALSE]
    /\ UNCHANGED <<clock, delete_on_source_delete, source, target, nextTid,
                   store, runVars, first, second, last_call, passVars,
                   mainVars>>

NextKey ==
    \/ KeyApply
    \/ \E e \in EventShapes, tz \in HostZones : KeyInput(e, tz)

SpecKey == InitKey /\ [][NextKey]_vars

(***************************************************************************)
(* Properties.                                                             *)
(***************************************************************************)
RunDone == pc = "deletes" /\ deleted_events = {}

SecondRunQuiet ==
    /\ stats.created = 0
    /\ stats.updated = 0
    /\ stats.deleted = 0
    /\ calls = NoCalls

ListedIds == {source_events[i].id : i \in 1..Len(source_events)}
Processed == 1..(idx - 1)
Tracked(id) == RowsOf(store, cal, id) # {}
TheRow(id) == CHOOSE r \in RowsOf(store, cal, id) : TRUE
Newer(e) ==
    /\ Tracked(e.id)
    /\ e.updated # NoTime
    /\ e.updated > TheRow(e.id).last_synced
\* A pass of a for loop over source_events that ran to its end.
LoopStep(m) == mode = m /\ pc = "loop" /\ idx' = idx + 1
SameKey(r, q) ==
    /\ r.source_calendar_id = q.source_calendar_id
    /\ r.source_event_id = q.source_event_id

\* C2: the store never holds two rows with the same
\* (source_calendar_id, source_event_id).
C2_MappingUniqueness ==
    \A r, q \in store : SameKey(r, q) => r = q

\* A row has been replaced by record_sync: the run updated a tracked event.
C2_Witness ==
    /\ mode = "sync"
    /\ ~dry_run
    /\ stats.updated > 0
    /\ \E r \in store : r.last_synced > 0

\* C3: a pass of reconcile_calendar records no row whose target_event_id
\* is already the target of a row of another source event, and an
\* untracked event whose key leads to a claimed target event is counted
\* target_already_mapped and gets no row.
C3_NoDuplicateTargetClaim ==
    [][LoopStep("reconcile") =>
         LET e == source_events[idx]
             key == _build_event_key_from_data(_build_event_data(e), host_tz)
         IN  /\ \A r \in store' \ store : \A q \in store :
                   q.target_event_id = r.target_event_id => SameKey(q, r)
             /\ ( /\ ~Tracked(e.id)
                  /\ key \in LookupKeys(target_lookup)
                  /\ \E q \in store :
                       q.target_event_id = LookupId(target_lookup, key) )
                => /\ store' = store
                   /\ stats' = Bump(stats, "target_already_mapped")]_vars

\* Two untracked source events with one key in one pass: the first got the
\* row, the second was counted target_already_mapped.
C3_Witness ==
    /\ mode = "reconcile"
    /\ ~dry_run
    /\ pc = "summary"
    /\ stats.reconciled = 1
    /\ stats.target_already_mapped = 1

\* C4: with delete_on_source_delete off, a sync_calendar run issues no
\* delete call and leaves the row of every tracked event that is absent
\* from the listing as it was.
C4_NoDeletionWhenDisabled ==
    [][(mode = "sync" /\ pc # "idle" /\ ~delete_on_source_delete) =>
         /\ calls'.delete = 0
         /\ \A id \in synced_events \ ListedIds :
              RowsOf(store', cal, id) = RowsOf(store, cal, id)
         /\ \A r \in store : r.source_event_id \in synced_events \ ListedIds =>
              TargetById(r.target_event_id) \subseteq target']_vars

C4_Witness ==
    /\ mode = "sync"
    /\ ~dry_run
    /\ ~delete_on_source_delete
    /\ RunDone
    /\ synced_events \ ListedIds # {}

\* C5: a dry run writes nothing (no row, no target event, no create,
\* update or delete call) and its counters hold the outcomes the listing
\* and the store call for.
C5_DryRunCounts ==
    (dry_run /\ pc # "idle") =>
      IF mode = "sync"
      THEN /\ stats.created =
                Cardinality({i \in Processed : ~Tracked(source_events[i].id)})
           /\ stats.updated =
                Cardinality({i \in Processed : Newer(source_events[i])})
           /\ stats.skipped =
                Cardinality({i \in Processed :
                               /\ Tracked(source_events[i].id)
                               /\ ~Newer(source_events[i])})
           /\ stats.deleted =
                IF pc = "deletes" /\ delete_on_source_delete
                THEN Cardinality((synced_events \ ListedIds) \ deleted_events)
                ELSE 0
      ELSE stats.reconciled =
             Cardinality({i \in Processed :
                /\ ~Tracked(source_events[i].id)
                /\ \E p \in target_lookup :
                     /\ p.key = _build_event_key_from_data(
                                   _build_event_data(source_events[i]), host_tz)
                     /\ \A q \in store : q.target_event_id # p.id})

C5_DryRunNoChanges ==
    /\ []C5_DryRunCounts
    /\ [][(dry_run /\ pc # "idle") =>
            /\ store' = store
            /\ target' = target
            /\ nextTid' = nextTid
            /\ calls' = NoCalls]_vars

C5_Witness ==
    /\ dry_run
    /\ mode = "sync"
    /\ RunDone
    /\ stats.created > 0
    /\ stats.updated > 0

\* C6: once a non-dry sync_calendar run has completed, whatever runs were
\* interrupted before it, no listed source event has two target events.
C6_RerunAfterInterruptSafe ==
    (mode = "sync" /\ ~dry_run /\ RunDone) =>
      \A id \in ListedIds :
        Cardinality({t \in target : t.origin = <<cal, id>>}) <= 1

\* C7: in a non-dry run, the deletion loop removes a row only when the
\* delete call for its target event succeeded.
C7_MappingRemovedOnlyOnSuccess ==
    [][(mode = "sync" /\ ~dry_run /\ pc = "deletes" /\ pc' = "deletes") =>
         \A r \in store :
           RowsOf(store', r.source_calendar_id, r.source_event_id) = {} =>
             /\ TargetById(r.target_event_id) # {}
             /\ TargetById(r.target_event_id) \cap target' = {}]_vars

\* C8: a run whose listing call succeeded removes the row, and deletes the
\* target event, only of source events that no longer exist.
C8_DeletedOnlyWhenSourceGone ==
    [][(mode = "sync" /\ pc = "deletes"
          /\ ListedIds = {k[2] : k \in ListedKeys(cal)}) =>
         \A r \in store :
           ( \/ RowsOf(store', r.source_calendar_id, r.source_event_id) = {}
             \/ TargetById(r.target_event_id) \ target' # {} )
           => ~source[<<r.source_calendar_id, r.source_event_id>>].exists]_vars

\* C9: in a non-dry run, the pass for an untracked event issues one create
\* call; when the call succeeds the event has one row, with the new target
\* event's id and the event's update timestamp, and created goes up by
\* one; when it fails no row is recorded.
C9_CreateUntracked ==
    [][(LoopStep("sync") /\ ~dry_run /\ ~Tracked(source_events[idx].id)) =>
         LET e == source_events[idx]
         IN  /\ calls'.create = calls.create + 1
             /\ calls'.update = calls.update
             /\ calls'.delete = calls.delete
             /\ IF target' # target
                THEN \E t \in target' \ target :
                       /\ target' = target \cup {t}
                       /\ t.id \notin {x.id : x \in target}
                       /\ Cardinality(RowsOf(store', cal, e.id)) = 1
                       /\ \A r \in RowsOf(store', cal, e.id) :
                            /\ r.target_event_id = t.id
                            /\ r.target_calendar_id = target_calendar_id
                            /\ r.source_updated = e.updated
                       /\ store' \ RowsOf(store', cal, e.id) = store
                       /\ stats' = Bump(stats, "created")
                ELSE /\ store' = store
                     /\ stats'.created = stats.created]_vars

\* One create call failed and one succeeded in the same run.
C9_Witness ==
    /\ mode = "sync"
    /\ ~dry_run
    /\ stats.created = 1
    /\ calls.create = 2
    /\ \E r \in store : r.target_event_id = nextTid - 1

\* The pass for a tracked event: the update call is issued exactly when
\* pushes holds; an event that is not newer gets no call, its row and its
\* target event stay as they were and it is counted skipped.
C10_Step(liveOnly) ==
    (LoopStep("sync") /\ Tracked(source_events[idx].id)) =>
      LET e == source_events[idx]
      IN  /\ (calls'.update = calls.update + 1)
               <=> (Newer(e) /\ (liveOnly => ~dry_run))
          /\ calls' # calls => /\ calls'.update = calls.update + 1
                               /\ calls'.create = calls.create
                               /\ calls'.delete = calls.delete
          /\ ~Newer(e) => /\ calls' = calls
                          /\ store' = store
                          /\ target' = target
                          /\ stats' = Bump(stats, "skipped")

\* C10 as stated: sync_calendar issues an update call for a tracked event
\* if and only if the event's update timestamp is present and later than
\* the row's last_synced; otherwise it makes no call, leaves the row as it
\* was and counts the event skipped.
C10_UpdateDecision == [][C10_Step(FALSE)]_vars

\* C10 as amended: the same of a non-dry run; a dry run issues no update
\* call for any event.
C10_UpdateDecisionNonDryRun == [][C10_Step(TRUE)]_vars

\* A non-dry run of two tracked events: one pushed, the other, whose
\* timestamp is absent, skipped.
C10_Witness ==
    /\ mode = "sync"
    /\ ~dry_run
    /\ RunDone
    /\ stats.updated = 1
    /\ stats.skipped = 1
    /\ calls = [create |-> 0, update |-> 1, delete |-> 0, failed |-> 0]
    /\ \E i \in 1..Len(source_events) : source_events[i].updated = NoTime

\* C11: in a sync_calendar run, a pass whose create or update call failed
\* counts the event skipped and leaves the store as it was (no row for a
\* failed create, the old last_synced after a failed update), and the loop
\* goes on to the next event of the listing: the run reaches the deletion
\* stage only after the last event of the listing.
C11_FailedPass ==
    (mode = "sync" /\ pc = "loop" /\ calls'.failed = calls.failed + 1) =>
      /\ stats' = Bump(stats, "skipped")
      /\ store' = store
      /\ target' = target
      /\ idx' = idx + 1
      /\ source_events' = source_events
      /\ pc' = IF idx < Len(source_events) THEN "loop" ELSE "deletes"

FreeTargets(key) ==
    {t \in target : /\ _build_event_key(t, host_tz) = key
                    /\ \A q \in store : q.target_event_id # t.id}

\* The pass of a non-dry reconcile_calendar run for an untracked event:
\* when the event's key singles out an unclaimed target event (any target
\* event of the calendar with that key, or the one target_lookup holds for
\* the key), the event gets one row, to that target event, and is counted
\* reconciled.  No step of a reconcile_calendar run issues a create, update
\* or delete call or changes the target calendar, and the pass of a
\* sync_calendar run for a tracked event creates no target event.
C13_Step(viaLookup) ==
    /\ (LoopStep("reconcile") /\ ~dry_run /\ ~Tracked(source_events[idx].id)) =>
         LET e == source_events[idx]
             key == _build_event_key_from_data(_build_event_data(e), host_tz)
             adopted == IF viaLookup
                        THEN {p.id : p \in {x \in target_lookup :
                                /\ x.key = key
                                /\ \A q \in store : q.target_event_id # x.id}}
                        ELSE {t.id : t \in FreeTargets(key)}
         IN  adopted # {} =>
               /\ \E id \in adopted :
                     store' = store \cup {Row(cal, e.id, target_calendar_id, id,
                                              e.updated, clock)}
               /\ stats' = Bump(stats, "reconciled")
    /\ (mode = "reconcile" /\ pc # "idle") =>
         /\ calls' = NoCalls
         /\ target' = target
         /\ nextTid' = nextTid
    /\ (LoopStep("sync") /\ Tracked(source_events[idx].id)) =>
         /\ calls'.create = calls.create
         /\ nextTid' = nextTid
         /\ {t.id : t \in target'} = {t.id : t \in target}

\* C13 as stated: an untracked source event whose key equals the key of a
\* target event that no row claims gets a row to such a target event.
C13_AdoptsUnclaimedTarget == [][C13_Step(FALSE)]_vars

\* C13 as amended: the same for the target event that target_lookup holds
\* for the key (the last one of the target listing with that key).
C13_AdoptsLookedUpTarget == [][C13_Step(TRUE)]_vars

\* A sync_calendar run after a reconcile_calendar run: the listed event
\* has a row to a target event made by hand, and nothing was ever created.
C13_Witness ==
    /\ mode = "sync"
    /\ ~dry_run
    /\ RunDone
    /\ stats.created = 0
    /\ nextTid = Cardinality(PreIds) + 1
    /\ \E r \in store :
         /\ r.source_event_id \in ListedIds
         /\ \E t \in TargetById(r.target_event_id) : t.origin = NoKey

\* C14: in a sync_calendar run, every step in which a create, update or
\* delete call fails adds one to some counter of the run's statistics.
C14_EveryFailureCounted ==
    [][(mode = "sync" /\ pc # "idle" /\ calls'.failed = calls.failed + 1) =>
         \E f \in DOMAIN stats : stats' = Bump(stats, f)]_vars

\* C15: initialize_calendar_api makes at most MaxAttempts attempts and none
\* once an attempt has succeeded or the process has exited; when the
\* retries run out the process exits with status 1 having started no run
\* and written nothing; and a run issues at most one create or update call
\* per listed event and one delete call per vanished event.
C15_BoundedRetry ==
    /\ [](attempt_number <= MaxAttempts)
    /\ [](fault = "network" =>
            /\ attempt_number = MaxAttempts
            /\ exit_status = 1
            /\ cal_idx = 0
            /\ pc = "idle")
    /\ [][(main_pc \in {"start", "init"}) =>
            /\ store' = store
            /\ target' = target
            /\ cal_idx' = 0
            /\ pc' = "idle"]_vars
    /\ [][main_pc # "init" => attempt_number' = attempt_number]_vars
    /\ []((main_pc = "running" /\ pc # "idle") =>
            /\ calls.create + calls.update <= idx - 1
            /\ calls.delete <=
                 IF pc = "deletes"
                 THEN Cardinality((synced_events \ ListedIds) \ deleted_events)
                 ELSE 0)

\* The fifth attempt failed with a network error.
C15_Witness ==
    /\ main_pc = "exited"
    /\ ~args.list_calendars
    /\ fault = "network"
    /\ attempt_number = MaxAttempts
    /\ exit_status = 1

\* The exit status of main.  The process exits with 1 when the
\* configuration file is missing (whatever the mode, or unless
\* --list-calendars is given), when the credentials file is missing, on an
\* interrupt and on any exception, in the two set-up cases before it has
\* used the gateway or the store; it exits with 0 otherwise, which happens
\* only after the calendars were listed, with no source calendar
\* configured, or after the last configured calendar was processed.
C16_Exits(configAlways) ==
    main_pc = "exited" =>
      /\ exit_status \in {0, 1}
      /\ ( \/ ~files.config /\ (configAlways \/ ~args.list_calendars)
           \/ ~files.credentials )
         => (exit_status = 1 /\ ~accessed)
      /\ fault \in {"interrupt", "error", "network", "store"} => exit_status = 1
      /\ fault = "none" =>
           /\ exit_status = 0
           /\ \/ args.list_calendars
              \/ source_calendars = <<>>
              \/ cal_idx = Len(source_calendars) + 1

C17_StoreFailureFatal ==
    /\ [](fault = "store" =>
            /\ main_pc = "exited"
            /\ exit_status = 1
            /\ pc = "idle")
    /\ [][fault = "store" => vars' = vars]_vars

\* The store failed in the run of the first of two calendars, after one of
\* its two events had been given a row and before the other had.
C17_Witness ==
    /\ fault = "store"
    /\ exit_status = 1
    /\ ~args.dry_run
    /\ Len(source_calendars) = 2
    /\ cal_idx = 1
    /\ \E r \in store : r.source_updated # NoTime
    /\ \E k \in SourceKeys : RowsOf(store, k[1], k[2]) = {}

\* The row r has the key of the call c.
KeyOf(r, c) == r.source_calendar_id = c.sc /\ r.source_event_id = c.se

\* C18: after record_sync(source_cal, source_event, target_cal,
\* target_event, source_updated) the store holds one row with that key,
\* with the given target calendar, target event and source_updated and
\* with last_synced the time of the call, whether or not the key had a row
\* before; the rows with other keys are those of before.
C18_RecordSyncUpsert ==
    [][(clock' = clock /\ last_call'.op = "record_sync") =>
         LET c == last_call'
         IN  /\ {r \in store' : KeyOf(r, c)} =
                   {Row(c.sc, c.se, c.tc, c.te, c.su, clock)}
             /\ Cardinality({r \in store' : KeyOf(r, c)}) = 1
             /\ {r \in store' : ~KeyOf(r, c)} = {r \in store : ~KeyOf(r, c)}]_vars

\* record_sync has replaced the row of a key, next to rows of the same
\* event id in another calendar and of another event id.
C18_Witness ==
    /\ last_call.op = "record_sync"
    /\ last_call.tracked
    /\ clock > 0
    /\ \E r \in store : KeyOf(r, last_call) /\ r.last_synced = clock
    /\ \E r \in store : r.source_event_id = last_call.se /\ ~KeyOf(r, last_call)
    /\ \E r \in store : r.source_event_id # last_call.se

\* C19: delete_sync_record on a key with a row removes that row, and no
\* other, and returns the row's target_event_id; on a key without a row it
\* returns None and leaves the store as it was.
C19_DeleteSyncRecord ==
    [][(clock' = clock /\ last_call'.op = "delete_sync_record") =>
         LET c == last_call'
             held == {r \in store : KeyOf(r, c)}
         IN  /\ c.tracked <=> held # {}
             /\ store' = {r \in store : ~KeyOf(r, c)}
             /\ c.result = {r.target_event_id : r \in held}
             /\ IF held # {}
                THEN /\ Cardinality(store') = Cardinality(store) - 1
                     /\ Cardinality(c.result) = 1
                ELSE /\ store' = store
                     /\ c.result = {}]_vars

\* delete_sync_record has removed a row and left the row of the same event
\* id in another calendar.
C19_Witness ==
    /\ last_call.op = "delete_sync_record"
    /\ last_call.tracked
    /\ last_call.result # {}
    /\ \A r \in store : ~KeyOf(r, last_call)
    /\ \E r \in store : r.source_event_id = last_call.se

\* C20: in a reconcile_calendar run, dry or not, every pass adds one to
\* exactly one of the four counters, so that they sum to the number of
\* events processed and, at the summary, to the length of the listing; the
\* pass for a tracked event counts already_tracked and leaves the store as
\* it was; the pass for an untracked event whose key is the key of no
\* listed target event counts not_found and records no row.
C20_ReconcileClassifiesOnce ==
    /\ []((mode = "reconcile" /\ pc # "idle") =>
            /\ stats.reconciled + stats.already_tracked + stats.not_found
                 + stats.target_already_mapped = idx - 1
            /\ pc = "summary" => idx - 1 = Len(source_events))
    /\ [][LoopStep("reconcile") =>
            LET e == source_events[idx]
                key == _build_event_key_from_data(_build_event_data(e), host_tz)
            IN  /\ \E f \in DOMAIN ReconcileStats0 : stats' = Bump(stats, f)
                /\ Tracked(e.id) =>
                     /\ stats' = Bump(stats, "already_tracked")
                     /\ store' = store
                /\ (~Tracked(e.id) /\ key \notin {p.key : p \in target_lookup}) =>
                     /\ stats' = Bump(stats, "not_found")
                     /\ store' = store]_vars

\* A run of two events: one tracked, one untracked without a match.
C20_Witness ==
    /\ mode = "reconcile"
    /\ pc = "summary"
    /\ Len(source_events) = 2
    /\ stats.already_tracked = 1
    /\ stats.not_found = 1
    /\ Cardinality(store) = 1


\* Incomplete(e): the event lacks a summary, a start or an end, a start or
\* end carrying neither a date nor a timestamp included.
Incomplete(e) ==
    \/ NoText(e.summary)
    \/ e.start.kind \in {"absent", "empty", "other"}
    \/ e.end.kind \in {"absent", "empty", "other"}

\* C22: the key of an event whose start is date-only holds the instant of
\* midnight UTC of that date, and the key is the same on a host of any zone.
C22_AllDayKeyIsMidnightUTC ==
    ( /\ key_out.applied
      /\ ~Incomplete(event_in)
      /\ "date" \in {event_in.start.kind, event_in.end.kind} ) =>
        /\ event_in.start.kind = "date" => key_out.target[2] = event_in.start.v
        /\ event_in.end.kind = "date" => key_out.target[3] = event_in.end.v
        /\ \A z \in HostZones : _build_event_key(event_in, z) = key_out.target

\* C23: the key of a calendar event and the key of a draft with the same
\* summary, start and end are the same result (a key, None or the same
\* exception), and the target event created from a source event's projection
\* has the key computed from the projection.
C23_KeyPathsAgree ==
    key_out.applied =>
        /\ key_out.target = key_out.data
        /\ key_out.created = key_out.projected

\* An all-day event on a host east of UTC, and its projection's key.
C23_Witness ==
    /\ key_out.applied
    /\ host_tz = 1
    /\ event_in.start = DateVal(0)
    /\ event_in.end = DateVal(1)
    /\ key_out.data = <<SourceSummary, 0 - 1, 0>>
    /\ key_out.created = <<event_prefix \o SourceSummary, 0 - 1, 0>>

\* C24: for an event lacking a summary, a start or an end, the key of the
\* event and of the draft is absent, and the key of a source event's
\* projection is computed without an exception.
C24_IncompleteEventHasNoKey ==
    (key_out.applied /\ Incomplete(event_in)) =>
        /\ key_out.target = <<>>
        /\ key_out.data = <<>>
        /\ key_out.projected \notin {KeyError, AttributeError}


\* C21: a successful non-dry update leaves the mapping's target_calendar_id
\* and target_event_id as they were, leaves every other mapping as it was,
\* and is addressed to that target_event_id.
C21_UpdateKeepsTarget ==
    [][( /\ LoopStep("sync")
         /\ calls'.update = calls.update + 1
         /\ stats'.updated = stats.updated + 1 ) =>
          LET e == source_events[idx]
              r == TheRow(e.id)
              q == CHOOSE x \in RowsOf(store', cal, e.id) : TRUE
          IN  /\ RowsOf(store', cal, e.id) # {}
              /\ q.target_calendar_id = r.target_calendar_id
              /\ q.target_event_id = r.target_event_id
              /\ store' \ {q} = store \ {r}
              /\ target' = UpdatedTarget(r.target_event_id, _build_event_data(e))]_vars


\* The key of the i-th event of the fetched target listing, and whether a
\* later event of the listing has the same key.
ListedKey(i) == _build_event_key(target_events[i], host_tz)
HasLaterDuplicate(i) ==
    \E j \in (i + 1)..Len(target_events) : ListedKey(j) = ListedKey(i)
EarlierDuplicates ==
    {target_events[i].id : i \in {j \in 1..Len(target_events) :
                                     HasLaterDuplicate(j)}}

\* C25: in a pass of reconcile_calendar the lookup holds, for each key of
\* the target listing, the last listed event of that key; the pass records
\* no mapping to an event that has a later duplicate in the listing; and a
\* source event whose key's last listed event is claimed is counted
\* target_already_mapped and gets no mapping, though an earlier duplicate is
\* free.
C25_LastDuplicateWins ==
    /\ []((mode = "reconcile" /\ pc # "idle") =>
            target_lookup =
              {[key |-> ListedKey(i), id |-> target_events[i].id] :
                 i \in {j \in 1..Len(target_events) :
                          ListedKey(j) # <<>> /\ ~HasLaterDuplicate(j)}})
    /\ [][LoopStep("reconcile") =>
            LET e == source_events[idx]
                key == _build_event_key_from_data(_build_event_data(e), host_tz)
            IN  /\ \A r \in store' \ store :
                     r.target_event_id \notin EarlierDuplicates
                /\ \A i \in 1..Len(target_events) :
                     ( /\ ~Tracked(e.id)
                       /\ ListedKey(i) = key
                       /\ ~HasLaterDuplicate(i)
                       /\ get_by_target_event(store, target_events[i].id) # {} ) =>
                          /\ store' = store
                          /\ stats' = Bump(stats, "target_already_mapped")]_vars

\* Two listed target events of one key and two untracked source events of
\* that key: the first adopted the last listed one, the second was counted
\* target_already_mapped, and the earlier duplicate is claimed by no mapping.
C25_Witness ==
    /\ mode = "reconcile"
    /\ pc = "summary"
    /\ ~dry_run
    /\ Len(target_events) = 2
    /\ ListedKey(1) = ListedKey(2)
    /\ stats.reconciled = 1
    /\ stats.target_already_mapped = 1
    /\ get_by_target_event(store, target_events[2].id) # {}
    /\ get_by_target_event(store, target_events[1].id) = {}


\* C26: in a non-dry run with delete propagation whose source listing
\* failed (get_events returned [] while the calendar holds events in the
\* window), the deletion phase removes no mapping and no target event.
C26_FailedListingDeletesNothing ==
    [][( /\ mode = "sync"
         /\ pc = "deletes"
         /\ ~dry_run
         /\ delete_on_source_delete
         /\ source_events = <<>>
         /\ ListedKeys(cal) # {} ) =>
            /\ store' = store
            /\ target' = target]_vars


\* C27: at the end of a non-dry sync_calendar run whose listing and calls
\* all succeeded, each listed event that was tracked when the run began and
\* was not edited since has a target event equal to its projection.
C27_EditPropagated ==
    ( /\ mode = "sync"
      /\ pc = "deletes"
      /\ ~dry_run
      /\ calls.failed = 0
      /\ Len(source_events) = Cardinality(ListedKeys(cal)) ) =>
        \A k \in ListedKeys(cal) \ edited :
          \A r \in RowsOf(store, k[1], k[2]) :
            (k[2] \in synced_events) =>
              \A t \in TargetById(r.target_event_id) :
                /\ t.summary = _build_event_data(source[k]).summary
                /\ t.start = _build_event_data(source[k]).start
                /\ t.end = _build_event_data(source[k]).end


\* C28: between runs that all reached their summary, no source event has
\* two target events created by the engine.
C28_NoDuplicateTargets ==
    pc = "idle" =>
      \A k \in SourceKeys :
        Cardinality({t \in target : t.origin = k}) <= 1


\* C29: when a non-dry run that follows a dry run of the same operation on
\* the same store and listings reaches its summary with every call
\* succeeded, its counters are the ones the dry run reported.
C29_DryRunPredicts ==
    ( /\ predicted.following
      /\ \/ mode = "sync" /\ RunDone
         \/ mode = "reconcile" /\ pc = "summary"
      /\ calls.failed = 0 ) =>
        stats = predicted.stats

\* The same for sync_calendar alone.
C29_DryRunPredictsSync ==
    (mode = "sync") => C29_DryRunPredicts


\* C30: in a run of sync_calendar, dry or not, each pass of the loop adds
\* one to exactly one of created, updated and skipped, so their sum is the
\* number of events processed and, after the loop, the length of the
\* listing; deleted is at most the number of ids tracked at the start of
\* the run that the listing does not hold.
C30_SyncClassifiesOnce ==
    /\ []((mode = "sync" /\ pc \in {"loop", "deletes"}) =>
            /\ stats.created + stats.updated + stats.skipped = idx - 1
            /\ pc = "deletes" =>
                 stats.created + stats.updated + stats.skipped
                   = Len(source_events)
            /\ stats.deleted <= Cardinality(synced_events \ ListedIds))
    /\ [][LoopStep("sync") =>
            \E f \in {"created", "updated", "skipped"} :
              stats' = Bump(stats, f)]_vars

\* A run that updated the one listed event and deleted the target event of
\* a tracked event that was not listed.
C30_Witness ==
    /\ mode = "sync"
    /\ RunDone
    /\ Len(source_events) = 1
    /\ stats.updated = 1
    /\ stats.deleted = 1
    /\ Cardinality(synced_events \ ListedIds) = 1

====
